---- MODULE Spec2Model ----
(***************************************************************************)
(* plotter.py: a script that reads a delimited text file of measurements   *)
(* (x, y, x-uncertainty, y-uncertainty), fits a line by orthogonal         *)
(* distance regression, computes the reduced chi squared and plots.        *)
(*                                                                         *)
(* Text is modelled as tuples of one-character strings, so that            *)
(* str.split, str.strip and float() are computed character by character.   *)
(* A float is modelled exactly as a normalised decimal [m, e] = m * 10^e.  *)
(***************************************************************************)
EXTENDS Integers, Sequences, FiniteSets, TLC

\* ------------------------------------------------------------------ bounds
\* The largest number of delimiter-separated fields of a generated line.
MaxFields == 5
\* The largest number of lines of a generated file.
MaxLines == 3

\* ------------------------------------------------------- module constants
DELIMITER == ","
FILE_NAME == <<"e3data.csv">>

\* ------------------------------------------------------------- characters
Digits == {"0", "1", "2", "3", "4", "5", "6", "7", "8", "9"}
\* The characters float() and str.strip() treat as white space (those of the
\* generated text).
Whitespace == {" ", "\n", "\t", "\r"}

DigitValue(c) ==
    CASE c = "0" -> 0 [] c = "1" -> 1 [] c = "2" -> 2 [] c = "3" -> 3
      [] c = "4" -> 4 [] c = "5" -> 5 [] c = "6" -> 6 [] c = "7" -> 7
      [] c = "8" -> 8 [] c = "9" -> 9

\* ------------------------------------------------------------ str methods
RECURSIVE LStrip(_, _)
LStrip(s, chars) ==
    IF s # <<>> /\ Head(s) \in chars THEN LStrip(Tail(s), chars) ELSE s

RECURSIVE RStrip(_, _)
RStrip(s, chars) ==
    IF s # <<>> /\ s[Len(s)] \in chars
    THEN RStrip(SubSeq(s, 1, Len(s) - 1), chars)
    ELSE s

\* str.strip(chars)
Strip(s, chars) == RStrip(LStrip(s, chars), chars)

\* str.split(sep) for a one-character sep: the pieces between the
\* occurrences of sep, empty pieces kept; a text without sep is one piece.
RECURSIVE SplitFrom(_, _, _)
SplitFrom(s, sep, cur) ==
    IF s = <<>> THEN <<cur>>
    ELSE IF Head(s) = sep THEN <<cur>> \o SplitFrom(Tail(s), sep, <<>>)
    ELSE SplitFrom(Tail(s), sep, Append(cur, Head(s)))

Split(s, sep) == SplitFrom(s, sep, <<>>)

\* ------------------------------------------------------------------ float
\* m * 10^e with no trailing zero in m; zero is [0, 0] (and -0.0 == 0.0).
RECURSIVE Normalise(_, _)
Normalise(m, e) ==
    IF m = 0 THEN [m |-> 0, e |-> 0]
    ELSE IF m % 10 = 0 THEN Normalise(m \div 10, e + 1)
    ELSE [m |-> m, e |-> e]

RECURSIVE DigitsValue(_)
DigitsValue(ds) ==
    IF ds = <<>> THEN 0
    ELSE 10 * DigitsValue(SubSeq(ds, 1, Len(ds) - 1)) + DigitValue(ds[Len(ds)])

\* The text float() parses: entry without the white space at both ends.
FloatText(entry) == Strip(entry, Whitespace)

FloatSigned(entry) == FloatText(entry) # <<>> /\ Head(FloatText(entry)) \in {"+", "-"}

FloatBody(entry) == IF FloatSigned(entry) THEN Tail(FloatText(entry)) ELSE FloatText(entry)

\* Whether float(entry) returns (TRUE) or raises ValueError (FALSE), over the
\* characters digits, sign, point and white space: an optional sign, then
\* digits with at most one point and at least one digit.  (Exponents,
\* underscores, inf and nan are outside the generated alphabet.)
FloatAccepts(entry) ==
    LET body == FloatBody(entry)
    IN  /\ \A i \in 1..Len(body) : body[i] \in Digits \cup {"."}
        /\ Cardinality({i \in 1..Len(body) : body[i] = "."}) <= 1
        /\ \E i \in 1..Len(body) : body[i] \in Digits

\* The value float(entry) returns when it returns.
float(entry) ==
    LET body == FloatBody(entry)
        points == {i \in 1..Len(body) : body[i] = "."}
        frac == IF points = {} THEN 0
                ELSE Len(body) - (CHOOSE i \in points : TRUE)
        mag == DigitsValue(SelectSeq(body, LAMBDA c : c \in Digits))
    IN  Normalise(IF FloatSigned(entry) /\ Head(FloatText(entry)) = "-"
                  THEN 0 - mag ELSE mag,
                  0 - frac)

\* try: float(entry); return True / except ValueError: return False
check_numeric(entry) == FloatAccepts(entry)

check_uncertainty(uncertainty) == uncertainty.m > 0

\* ---------------------------------------------------------- validate_line
\* The console lines validate_line prints.
OmittedMsg(line) == [msg |-> "Line omitted", arg |-> Strip(line, {"\n"})]

NonNumericalMsg(entry) == [msg |-> "is nonnumerical", arg |-> entry]

RECURSIVE FirstRejectedAmongFour(_, _)
FirstRejectedAmongFour(line_split, i) ==
    IF i > Len(line_split) \/ i > 4 THEN 0
    ELSE IF check_numeric(line_split[i]) = FALSE THEN i
    ELSE FirstRejectedAmongFour(line_split, i + 1)

\* for entry in line_split: the index of the first entry check_numeric
\* rejects, scanning from i; 0 when the loop ends without returning.
RECURSIVE FirstRejected(_, _)
FirstRejected(line_split, i) ==
    IF i > Len(line_split) THEN 0
    ELSE IF check_numeric(line_split[i]) = FALSE THEN i
    ELSE FirstRejected(line_split, i + 1)

line_floats_last_four(line_split) ==
    <<float(line_split[Len(line_split) - 3]), float(line_split[Len(line_split) - 2]),
      float(line_split[Len(line_split) - 1]), float(line_split[Len(line_split)])>>

\* np.array([float(line_split[0]), float(line_split[1]),
\*           float(line_split[2]), float(line_split[3])])
line_floats(line_split) ==
    <<float(line_split[1]), float(line_split[2]),
      float(line_split[3]), float(line_split[4])>>

validate_line_length_checked(line) ==
    LET line_split == Split(line, DELIMITER)
        bad == FirstRejected(line_split, 1)
    IN  IF bad # 0
        THEN [kind |-> "return", valid |-> FALSE, data |-> line_split,
              out |-> <<OmittedMsg(line), NonNumericalMsg(line_split[bad])>>]
        ELSE IF Len(line_split) < 4
        THEN [kind |-> "return", valid |-> FALSE, data |-> line_split,
              out |-> <<OmittedMsg(line)>>]
        ELSE [kind |-> "return", valid |-> TRUE, data |-> line_floats(line_split),
              out |-> <<>>]

\* validate_line(line): what it returns or raises, and what it prints.
\* Indexing line_split below four entries raises IndexError.
validate_line(line) ==
    LET line_split == Split(line, DELIMITER)
        bad == FirstRejected(line_split, 1)
    IN  IF bad # 0
        THEN [kind |-> "return", valid |-> FALSE, data |-> line_split,
              out |-> <<OmittedMsg(line), NonNumericalMsg(line_split[bad])>>]
        ELSE IF Len(line_split) < 4
        THEN [kind |-> "IndexError", valid |-> FALSE, data |-> <<>>, out |-> <<>>]
        ELSE [kind |-> "return", valid |-> TRUE, data |-> line_floats(line_split),
              out |-> <<>>]

\* ------------------------------------------------------------ input text
\* The fields of the generated lines: " 2", "0", "-1", "1.5" (numeric, with
\* leading white space, zero, negative, fractional), "2a" and "" (not).
FPos == <<" ", "2">>
FZero == <<"0">>
FNeg == <<"-", "1">>
FDec == <<"1", ".", "5">>
FBad == <<"2", "a">>
FEmpty == <<>>

LineFields == {FPos, FZero, FNeg, FDec, FBad, FEmpty}

\* What the text of each numeric field denotes, written out by hand.
FieldValue(f) ==
    CASE f = FPos -> [m |-> 2, e |-> 0]
      [] f = FZero -> [m |-> 0, e |-> 0]
      [] f = FNeg -> [m |-> 0 - 1, e |-> 0]
      [] f = FDec -> [m |-> 15, e |-> 0 - 1]

NumericFields == {FPos, FZero, FNeg, FDec}

\* The rows of 1..MaxFields fields.
LineRows == UNION {[1..n -> LineFields] : n \in 1..MaxFields}

\* A line of text ends with a newline, except possibly the last of a file.
LineEnds == {<<"\n">>, <<>>}

RECURSIVE Join(_, _)
Join(row, sep) ==
    IF Len(row) = 1 THEN row[1]
    ELSE row[1] \o <<sep>> \o Join(Tail(row), sep)

MkLine(row, end) == Join(row, DELIMITER) \o end

\* The lines of the generated files: accepted lines (positive, zero and
\* negative uncertainties, a fifth field), rejected lines (a non-numeric field
\* among four, as a fifth, in a short line, a blank line) and a line of three
\* numeric fields.
FileRows ==
    { <<FPos, FDec, FPos, FDec>>,
      <<FDec, FNeg, FPos, FZero>>,
      <<FZero, FPos, FNeg, FDec>>,
      <<FPos, FPos, FDec, FDec, FNeg>>,
      <<FNeg, FZero, FDec, FPos, FBad>>,
      <<FPos, FBad, FDec, FPos>>,
      <<FBad, FPos>>,
      <<FEmpty>>,
      <<FDec, FPos, FPos>> }

FileLines == {MkLine(row, <<"\n">>) : row \in FileRows}

Files == UNION {[1..n -> FileLines] : n \in 0..MaxLines}

\* ------------------------------------------------------------------ state
VARIABLES
    SKIP_FIRST_LINE,  \* the header flag the script is configured with
    row,              \* the fields a single line was generated from
    line,             \* the line handed to validate_line
    result,           \* what validate_line returned or raised
    fileExists,       \* whether open(file_name, 'r') finds the file
    file,             \* the lines of the file
    skip_first_line,  \* open_file's parameter, cleared by the first line
    pc,               \* where main is
    handle,           \* raw_file_data: "none", "open" or "closed"
    nread,            \* how many lines the for loop has taken from the file
    x_data, y_data, x_err, y_err,   \* open_file's running arrays
    returned,         \* the tuple open_file returned
    main,             \* main's x_data, y_data, x_err, y_err after the unpack
    fitted,           \* whether myodr.run() has returned myoutput
    chi,              \* chi_squared_function's call: its divisors and result
    reduced,          \* the division chi_squared / (len(x_data) - 2)
    saved,            \* whether plt.savefig has written the plot
    fault,            \* the uncaught exception that ended the program
    stdout            \* the console lines printed so far

vars == <<SKIP_FIRST_LINE, row, line, result, fileExists, file, skip_first_line, pc, handle,
          nread, x_data, y_data, x_err, y_err, returned, main, fitted, chi,
          reduced, saved, fault, stdout>>

NoResult == [kind |-> "none", valid |-> FALSE, data |-> <<>>, out |-> <<>>]

NoFault == [type |-> "none", at |-> "none"]

progVars == <<SKIP_FIRST_LINE, fileExists, file, skip_first_line, pc, handle, nread, x_data,
              y_data, x_err, y_err, returned, main, fitted, chi, reduced,
              saved, fault>>

lineVars == <<row, line, result>>

\* The program before main() is called.
ProgramStart ==
    /\ pc = "open_file"
    /\ skip_first_line = SKIP_FIRST_LINE
    /\ handle = "none"
    /\ nread = 0
    /\ x_data = <<>> /\ y_data = <<>> /\ x_err = <<>> /\ y_err = <<>>
    /\ returned = <<>>
    /\ main = <<>>
    /\ fitted = FALSE
    /\ chi = [called |-> FALSE, divisors |-> <<>>, finite |-> TRUE]
    /\ reduced = [done |-> FALSE, denominator |-> 0]
    /\ saved = FALSE
    /\ fault = NoFault
    /\ stdout = <<>>

\* ------------------------------------------- validate_line on its own
InitLine ==
    /\ row \in LineRows
    /\ \E end \in LineEnds : line = MkLine(row, end)
    /\ line # <<>>
    /\ result = NoResult
    /\ SKIP_FIRST_LINE = FALSE
    /\ fileExists = FALSE /\ file = <<>>
    /\ ProgramStart

CallValidateLine ==
    /\ result.kind = "none"
    /\ result' = validate_line(line)
    /\ stdout' = stdout \o validate_line(line).out
    /\ UNCHANGED <<row, line>>
    /\ UNCHANGED progVars

NextLine == CallValidateLine

SpecLine == InitLine /\ [][NextLine]_vars

\* ------------------------------------------------------------ the script
Init ==
    /\ SKIP_FIRST_LINE \in BOOLEAN
    /\ fileExists \in BOOLEAN
    /\ file \in (IF fileExists THEN Files ELSE {<<>>})
    /\ row = <<>> /\ line = <<>> /\ result = NoResult
    /\ ProgramStart

arrays == <<x_data, y_data, x_err, y_err>>

mainVars == <<main, fitted, chi, reduced, saved>>

config == <<SKIP_FIRST_LINE, fileExists, file>>

NotFoundMsgs ==
    << [msg |-> "cannot be found", arg |-> FILE_NAME],
       [msg |-> "Check it is in the correct directory", arg |-> <<>>] >>

OpenMissingReturnsFour ==
    /\ pc = "open_file"
    /\ ~fileExists
    /\ stdout' = stdout \o NotFoundMsgs
    /\ returned' = <<x_data, y_data, x_err, y_err>>
    /\ pc' = "unpack"
    /\ UNCHANGED <<config, lineVars, skip_first_line, handle, nread, arrays,
                   mainVars, fault>>

\* open_file, the open fails: two lines printed, two arrays returned.
OpenMissing ==
    /\ pc = "open_file"
    /\ ~fileExists
    /\ stdout' = stdout \o NotFoundMsgs
    /\ returned' = <<x_data, y_data>>
    /\ pc' = "unpack"
    /\ UNCHANGED <<config, lineVars, skip_first_line, handle, nread, arrays,
                   mainVars, fault>>

\* open_file, the open succeeds.
OpenFound ==
    /\ pc = "open_file"
    /\ fileExists
    /\ handle' = "open"
    /\ pc' = "reading"
    /\ UNCHANGED <<config, lineVars, skip_first_line, nread, arrays, returned,
                   mainVars, fault, stdout>>

\* The line the for loop takes next.
NextLineOfFile == file[nread + 1]

SkipHeaderKeepsFlag ==
    /\ pc = "reading" /\ nread < Len(file)
    /\ skip_first_line
    /\ nread' = nread + 1
    /\ UNCHANGED <<config, lineVars, skip_first_line, pc, handle, arrays,
                   returned, mainVars, fault, stdout>>

\* for line in raw_file_data: the first line when skip_first_line is set.
SkipHeader ==
    /\ pc = "reading" /\ nread < Len(file)
    /\ skip_first_line
    /\ skip_first_line' = FALSE
    /\ nread' = nread + 1
    /\ UNCHANGED <<config, lineVars, pc, handle, arrays, returned, mainVars,
                   fault, stdout>>

\* A line validate_line accepts: its four values are appended.
AcceptLineChecked ==
    /\ pc = "reading" /\ nread < Len(file)
    /\ ~skip_first_line
    /\ LET v == validate_line(NextLineOfFile)
       IN  /\ v.kind = "return" /\ v.valid
           /\ IF check_uncertainty(v.data[3]) /\ check_uncertainty(v.data[4])
              THEN /\ x_data' = Append(x_data, v.data[1])
                   /\ y_data' = Append(y_data, v.data[2])
                   /\ x_err' = Append(x_err, v.data[3])
                   /\ y_err' = Append(y_err, v.data[4])
              ELSE UNCHANGED arrays
           /\ stdout' = stdout \o v.out
    /\ nread' = nread + 1
    /\ UNCHANGED <<config, lineVars, skip_first_line, pc, handle, returned,
                   mainVars, fault>>

AcceptLineSwapped ==
    /\ pc = "reading" /\ nread < Len(file)
    /\ ~skip_first_line
    /\ LET v == validate_line(NextLineOfFile)
       IN  /\ v.kind = "return" /\ v.valid
           /\ x_data' = Append(x_data, v.data[1])
           /\ y_data' = Append(y_data, v.data[2])
           /\ x_err' = Append(x_err, v.data[4])
           /\ y_err' = Append(y_err, v.data[3])
           /\ stdout' = stdout \o v.out
    /\ nread' = nread + 1
    /\ UNCHANGED <<config, lineVars, skip_first_line, pc, handle, returned,
                   mainVars, fault>>

AcceptLineDropsYErr ==
    /\ pc = "reading" /\ nread < Len(file)
    /\ ~skip_first_line
    /\ LET v == validate_line(NextLineOfFile)
       IN  /\ v.kind = "return" /\ v.valid
           /\ x_data' = Append(x_data, v.data[1])
           /\ y_data' = Append(y_data, v.data[2])
           /\ x_err' = Append(x_err, v.data[3])
           /\ y_err' = y_err
           /\ stdout' = stdout \o v.out
    /\ nread' = nread + 1
    /\ UNCHANGED <<config, lineVars, skip_first_line, pc, handle, returned,
                   mainVars, fault>>

AcceptLine ==
    /\ pc = "reading" /\ nread < Len(file)
    /\ ~skip_first_line
    /\ LET v == validate_line(NextLineOfFile)
       IN  /\ v.kind = "return" /\ v.valid
           /\ x_data' = Append(x_data, v.data[1])
           /\ y_data' = Append(y_data, v.data[2])
           /\ x_err' = Append(x_err, v.data[3])
           /\ y_err' = Append(y_err, v.data[4])
           /\ stdout' = stdout \o v.out
    /\ nread' = nread + 1
    /\ UNCHANGED <<config, lineVars, skip_first_line, pc, handle, returned,
                   mainVars, fault>>

\* A line validate_line rejects: reported, nothing appended.
RejectLine ==
    /\ pc = "reading" /\ nread < Len(file)
    /\ ~skip_first_line
    /\ LET v == validate_line(NextLineOfFile)
       IN  /\ v.kind = "return" /\ ~v.valid
           /\ stdout' = stdout \o v.out
    /\ nread' = nread + 1
    /\ UNCHANGED <<config, lineVars, skip_first_line, pc, handle, arrays,
                   returned, mainVars, fault>>

\* A line on which validate_line raises: nothing catches the exception, it
\* leaves open_file and main, and raw_file_data.close() is not executed.
LineFault ==
    /\ pc = "reading" /\ nread < Len(file)
    /\ ~skip_first_line
    /\ LET v == validate_line(NextLineOfFile)
       IN  /\ v.kind = "IndexError"
           /\ stdout' = stdout \o v.out
           /\ fault' = [type |-> v.kind, at |-> "validate_line"]
    /\ nread' = nread + 1
    /\ pc' = "faulted"
    /\ UNCHANGED <<config, lineVars, skip_first_line, handle, arrays, returned,
                   mainVars>>

\* The loop has ended: raw_file_data.close() and the return of four arrays.
CloseAndReturn ==
    /\ pc = "reading" /\ nread = Len(file)
    /\ handle' = "closed"
    /\ returned' = <<x_data, y_data, x_err, y_err>>
    /\ pc' = "unpack"
    /\ UNCHANGED <<config, lineVars, skip_first_line, nread, arrays, mainVars,
                   fault, stdout>>

\* x_data, y_data, x_err, y_err = open_file()
Unpack ==
    /\ pc = "unpack"
    /\ IF Len(returned) = 4
       THEN /\ main' = returned
            /\ pc' = "ODR"
            /\ UNCHANGED fault
       ELSE /\ fault' = [type |-> "ValueError", at |-> "main unpack"]
            /\ pc' = "faulted"
            /\ UNCHANGED main
    /\ UNCHANGED <<config, lineVars, skip_first_line, handle, nread, arrays,
                   returned, fitted, chi, reduced, saved, stdout>>

\* Model, RealData, ODR, run, pprint: the solver is a library routine; it
\* returns a fit and prints its report ...
OdrReturns ==
    /\ pc = "ODR"
    /\ fitted' = TRUE
    /\ stdout' = Append(stdout, [msg |-> "ODR report", arg |-> <<>>])
    /\ pc' = "linspace"
    /\ UNCHANGED <<config, lineVars, skip_first_line, handle, nread, arrays,
                   returned, main, chi, reduced, saved, fault>>

\* ... or raises.
OdrRaises ==
    /\ pc = "ODR"
    /\ fault' = [type |-> "OdrError", at |-> "ODR"]
    /\ pc' = "faulted"
    /\ UNCHANGED <<config, lineVars, skip_first_line, handle, nread, arrays,
                   returned, mainVars, stdout>>

\* np.linspace(x_data[0], x_data[-1], 1000): indexing an empty array raises.
Linspace ==
    /\ pc = "linspace"
    /\ IF Len(main[1]) = 0
       THEN /\ fault' = [type |-> "IndexError", at |-> "main x_data[0]"]
            /\ pc' = "faulted"
       ELSE /\ pc' = "chi_squared"
            /\ UNCHANGED fault
    /\ UNCHANGED <<config, lineVars, skip_first_line, handle, nread, arrays,
                   returned, mainVars, stdout>>

\* chi_squared_function(x_data, y_data, y_err, myoutput.beta): every squared
\* residual is divided by y_uncertainties**2; numpy divides by zero without
\* raising (the result is inf or nan).
ChiSquared ==
    /\ pc = "chi_squared"
    /\ chi' = [called |-> TRUE, divisors |-> main[4],
               finite |-> \A i \in 1..Len(main[4]) : main[4][i].m # 0]
    /\ pc' = "reduced_chi"
    /\ UNCHANGED <<config, lineVars, skip_first_line, handle, nread, arrays,
                   returned, main, fitted, reduced, saved, fault, stdout>>

ReducedChiRaisesOnZero ==
    /\ pc = "reduced_chi"
    /\ IF Len(main[1]) - 2 = 0
       THEN /\ fault' = [type |-> "ZeroDivisionError", at |-> "main reduced_chi"]
            /\ pc' = "faulted"
            /\ UNCHANGED <<reduced, stdout>>
       ELSE /\ reduced' = [done |-> TRUE, denominator |-> Len(main[1]) - 2]
            /\ stdout' = Append(stdout, [msg |-> "Reduced chi squared", arg |-> <<>>])
            /\ pc' = "plotter"
            /\ UNCHANGED fault
    /\ UNCHANGED <<config, lineVars, skip_first_line, handle, nread, arrays,
                   returned, main, fitted, chi, saved>>

\* reduced_chi = chi_squared / (len(x_data) - 2), and its print; chi_squared
\* is a numpy float, whose division by zero does not raise.
ReducedChi ==
    /\ pc = "reduced_chi"
    /\ reduced' = [done |-> TRUE, denominator |-> Len(main[1]) - 2]
    /\ stdout' = Append(stdout, [msg |-> "Reduced chi squared", arg |-> <<>>])
    /\ pc' = "plotter"
    /\ UNCHANGED <<config, lineVars, skip_first_line, handle, nread, arrays,
                   returned, main, fitted, chi, saved, fault>>

\* plotter(...): plt.savefig writes the plot.
Plotter ==
    /\ pc = "plotter"
    /\ saved' = TRUE
    /\ pc' = "done"
    /\ UNCHANGED <<config, lineVars, skip_first_line, handle, nread, arrays,
                   returned, main, fitted, chi, reduced, fault, stdout>>

Next ==
    \/ OpenMissing
    \/ OpenFound
    \/ SkipHeader
    \/ AcceptLine
    \/ RejectLine
    \/ LineFault
    \/ CloseAndReturn
    \/ Unpack
    \/ OdrReturns
    \/ OdrRaises
    \/ Linspace
    \/ ChiSquared
    \/ ReducedChi
    \/ Plotter

Spec == Init /\ [][Next]_vars

\* ------------------------------------------------ claims on validate_line
\* The line as generated: its fields as text (the line's end is part of the
\* last one), and which of them are numeric by construction.
RowEnd == CHOOSE end \in LineEnds : line = MkLine(row, end)

RowText == [i \in 1..Len(row) |-> IF i = Len(row) THEN row[i] \o RowEnd ELSE row[i]]

RowAllNumeric == \A i \in 1..Len(row) : row[i] \in NumericFields

RowFirstBad == CHOOSE i \in 1..Len(row) :
                  /\ row[i] \notin NumericFields
                  /\ \A j \in 1..(i - 1) : row[j] \in NumericFields

Called == result.kind # "none"

ReturnsFirstFour ==
    /\ result.kind = "return"
    /\ result.valid = TRUE
    /\ Len(result.data) = 4
    /\ \A k \in 1..4 : k <= Len(row) => result.data[k] = FieldValue(row[k])

\* C3 as stated: for every line whose fields are all numeric, validate_line
\* returns valid = true with the first four fields as floats, in order.
C3_AllNumericReturnsFirstFour ==
    (Called /\ RowAllNumeric) => ReturnsFirstFour

\* C3 amended: for every line of at least four fields, all numeric,
\* validate_line returns valid = true with exactly the first four fields
\* converted to floats, in order; the fields beyond the fourth do not affect
\* the result.
C3_FourOrMoreNumericReturnsFirstFour ==
    (Called /\ RowAllNumeric /\ Len(row) >= 4) =>
        /\ ReturnsFirstFour
        /\ result = validate_line(MkLine(SubSeq(row, 1, 4), <<"\n">>))

\* A line of five numeric fields has been validated.
C3_Witness ==
    /\ Called /\ RowAllNumeric /\ Len(row) = 5
    /\ result.valid
    /\ result.data[3] # result.data[4]

\* C4: for every line with a non-numeric field at any position,
\* validate_line returns valid = false with the original split fields, and
\* prints the omitted line and the first non-numeric field from the left,
\* and no other.
C4_NonNumericRejectedFirstReported ==
    (Called /\ ~RowAllNumeric) =>
        /\ result.kind = "return"
        /\ result.valid = FALSE
        /\ result.data = RowText
        /\ stdout = << [msg |-> "Line omitted", arg |-> Join(row, DELIMITER)],
                       [msg |-> "is nonnumerical", arg |-> RowText[RowFirstBad]] >>

\* A line whose only non-numeric field is the fifth, and a line with two
\* non-numeric fields, have been rejected.
C4_Witness ==
    /\ Called /\ Len(row) = 5
    /\ row[5] = FBad /\ row[2] = FEmpty /\ row[1] \in NumericFields
    /\ result.valid = FALSE
    /\ stdout[2].arg = FEmpty

\* C7 as stated: every line with fewer than four fields makes validate_line
\* raise IndexError; it is never reported as an omitted line.
C7_ShortLineAlwaysFaults ==
    (Called /\ Len(row) < 4) => (result.kind = "IndexError" /\ stdout = <<>>)

\* C7 amended: every line with fewer than four fields, all of them numeric,
\* makes validate_line raise IndexError with nothing printed; a line with
\* fewer than four fields one of which is not numeric (a blank line included)
\* is reported as omitted and validate_line returns valid = false.
C7_ShortLineFaultsIffAllNumeric ==
    (Called /\ Len(row) < 4) =>
        IF RowAllNumeric
        THEN result.kind = "IndexError" /\ stdout = <<>>
        ELSE /\ result.kind = "return" /\ result.valid = FALSE
             /\ Len(stdout) = 2 /\ stdout[1].msg = "Line omitted"

\* A line of three numeric fields has raised IndexError.
C7_Witness ==
    /\ Called /\ Len(row) = 3 /\ RowAllNumeric
    /\ result.kind = "IndexError"

\* ---------------------------------------------------- claims on the script
\* The fields a line of the file was generated from.
FileRowOf(l) == CHOOSE r \in FileRows : MkLine(r, <<"\n">>) = l

\* By construction: the rows validate_line accepts, rejects, and faults on.
RowAccepted(r) == Len(r) >= 4 /\ \A i \in 1..Len(r) : r[i] \in NumericFields

RowRejected(r) == \E i \in 1..Len(r) : r[i] \notin NumericFields

\* The first line that is data, and the data lines among the first n accepted.
FirstData == IF SKIP_FIRST_LINE THEN 2 ELSE 1

\* Column k of the rows accepted among the first n lines, in file order.
RECURSIVE ExpectedColumn(_, _)
ExpectedColumn(k, n) ==
    IF n < FirstData THEN <<>>
    ELSE IF RowAccepted(FileRowOf(file[n]))
    THEN Append(ExpectedColumn(k, n - 1), FieldValue(FileRowOf(file[n])[k]))
    ELSE ExpectedColumn(k, n - 1)

OmittedCount == Cardinality({j \in 1..Len(stdout) : stdout[j].msg = "Line omitted"})

ReturnedFour == Len(returned) = 4

AllLinesFourNumeric ==
    \A i \in 1..Len(file) :
        Len(FileRowOf(file[i])) = 4 /\ RowAccepted(FileRowOf(file[i]))

\* C1: for a file of N lines, each of four numeric fields, read with the
\* header flag not set, open_file returns four sequences of length N whose
\* i-th entries are the values of fields 1, 2, 3, 4 of the i-th line.
C1_RoundTrip ==
    (ReturnedFour /\ ~SKIP_FIRST_LINE /\ AllLinesFourNumeric) =>
        \A k \in 1..4 :
            /\ Len(returned[k]) = Len(file)
            /\ \A i \in 1..Len(file) :
                  returned[k][i] = FieldValue(FileRowOf(file[i])[k])

\* Three different lines of four numeric fields have been returned.
C1_Witness ==
    /\ ReturnedFour /\ ~SKIP_FIRST_LINE /\ AllLinesFourNumeric
    /\ Len(file) = 3 /\ file[1] # file[2] /\ file[2] # file[3]
    /\ Len(returned[1]) = 3
    /\ returned[3][1] # returned[4][1]

\* C2 as stated: with the header flag set, each returned sequence has length
\* (lines of the file - 1 - lines reported as invalid).
C2_LengthWithHeader ==
    (ReturnedFour /\ SKIP_FIRST_LINE) =>
        \A k \in 1..4 : Len(returned[k]) = Len(file) - 1 - OmittedCount

\* C2 amended: the same, for every file of at least one line; for an empty
\* file the sequences have length 0.
C2_LengthWithHeaderNonEmpty ==
    (ReturnedFour /\ SKIP_FIRST_LINE) =>
        \A k \in 1..4 :
            Len(returned[k]) = IF Len(file) >= 1
                               THEN Len(file) - 1 - OmittedCount
                               ELSE 0

\* A file of a header, an accepted and a rejected line has been returned.
C2_Witness ==
    /\ ReturnedFour /\ SKIP_FIRST_LINE /\ Len(file) = 3
    /\ OmittedCount = 1
    /\ Len(returned[1]) = 1

C6_HandleClosedOnLeaving ==
    (handle # "none" /\ pc # "reading") => handle = "closed"

\* The data lines among the first n of the file that are accepted.
AcceptedCount(n) ==
    Cardinality({i \in FirstData..n : RowAccepted(FileRowOf(file[i]))})

LengthsAgree ==
    /\ Len(x_data) = Len(y_data)
    /\ Len(y_data) = Len(x_err)
    /\ Len(x_err) = Len(y_err)
    /\ Len(y_err) = AcceptedCount(nread)

\* The for loop takes a line that is the skipped header or is rejected.
TakesUnacceptedLine ==
    /\ pc = "reading" /\ nread' = nread + 1
    /\ \/ skip_first_line
       \/ RowRejected(FileRowOf(file[nread + 1]))

\* C8: in every state of open_file the four running sequences have the same
\* length, the number of lines accepted so far; a skipped header line or a
\* rejected line leaves all four unchanged.
C8_EqualLengths ==
    /\ [](LengthsAgree /\ (ReturnedFour => returned = arrays))
    /\ [][TakesUnacceptedLine => UNCHANGED arrays]_vars

\* Two lines have been accepted and a third rejected.
C8_Witness ==
    /\ pc = "reading" /\ nread = 3
    /\ Len(x_data) = 2 /\ Len(y_err) = 2
    /\ RowRejected(FileRowOf(file[3]))

Terminated == pc \in {"done", "faulted"}

\* C9 as stated (a fault raised by the solver itself set aside): for every
\* file that yields fewer than 3 valid points, main performs the division by
\* len(x_data) - 2 <= 0; no earlier step of main faults first.
C9_FewPointsReachDivision ==
    (Terminated /\ ReturnedFour /\ Len(returned[1]) < 3 /\ fault.at # "ODR") =>
        (reduced.done /\ reduced.denominator <= 0)

\* C9 amended: for every file that yields 1 or 2 valid points, main performs
\* the division by len(x_data) - 2 <= 0 and no step of main but the solver
\* faults first; for a file that yields no valid point main never reaches the
\* division: when the solver returns, x_data[0] raises IndexError.
C9_OneOrTwoPointsReachDivision ==
    (ReturnedFour /\ Len(returned[1]) < 3) =>
        /\ reduced.done =>
              /\ Len(returned[1]) \in {1, 2}
              /\ reduced.denominator = Len(returned[1]) - 2
              /\ reduced.denominator <= 0
        /\ (Terminated /\ Len(returned[1]) \in {1, 2}) =>
              \/ fault = [type |-> "OdrError", at |-> "ODR"]
              \/ pc = "done" /\ reduced.done /\ fault = NoFault
        /\ (Terminated /\ Len(returned[1]) = 0) =>
              \/ fault = [type |-> "OdrError", at |-> "ODR"]
              \/ fitted /\ fault = [type |-> "IndexError", at |-> "main x_data[0]"]

\* The division has been performed with a zero denominator.
C9_Witness ==
    /\ reduced.done /\ reduced.denominator = 0
    /\ Len(returned[1]) = 2

\* C10: check_uncertainty is never applied on the data path: every line of
\* at least four numeric fields is appended, with no diagnostic, whatever the
\* sign of its uncertainties, and chi_squared_function divides by the
\* y-uncertainties as loaded, zeros included.
C10_UncertaintiesUnchecked ==
    /\ x_err = ExpectedColumn(3, nread)
    /\ y_err = ExpectedColumn(4, nread)
    /\ OmittedCount = Cardinality({i \in FirstData..nread :
                                      RowRejected(FileRowOf(file[i]))})
    /\ chi.called => (chi.divisors = y_err /\ main[3] = x_err)

\* A zero y-uncertainty is a divisor of chi_squared_function, and a negative
\* x-uncertainty was loaded beside it.
C10_Witness ==
    /\ chi.called
    /\ \E i \in 1..Len(chi.divisors) : chi.divisors[i].m = 0
    /\ \E i \in 1..Len(x_err) : x_err[i].m < 0
    /\ ~chi.finite

====
